---- MODULE Spec2Model ----
(***************************************************************************)
(* Model of src/app/main.py: the Solana risk checker backend.              *)
(*                                                                         *)
(* Two specifications share the module:                                    *)
(*   Spec      the server: concurrent /health, /simulate and /score        *)
(*             requests over the process-wide CACHE, split at the await    *)
(*             points of the handlers;                                     *)
(*   PureSpec  extract_features_from_helius and the scoring tail of        *)
(*             score() applied to record lists drawn from bounded sets.    *)
(*                                                                         *)
(* Python values: a dict is a function whose DOMAIN is its key set, None   *)
(* is the empty option << >> and a present value x is <<x>> where a value  *)
(* may be None, a float that the code computes by division is kept as an   *)
(* exact fraction [num, den].                                              *)
(***************************************************************************)
EXTENDS Integers, Sequences, FiniteSets, TLC

\* ------------------------------------------------------------------ bounds
MaxRecords == 2      \* records per list in the exhaustive input set
MaxTransfers == 2    \* native transfers per record in the exhaustive input set
MaxEntries == 3      \* native transfers per list in the exhaustive input set
MaxUniform == 13     \* records per list in the ratio sweep i / n
MaxTicks == 1        \* clock advances in one behaviour
MaxResponses == 2    \* JSON responses the upstream produces in one behaviour

\* --------------------------------------------------------------- constants
CACHE_TTL == 300
SECONDS_PER_DAY == 86400

\* ------------------------------------------------------------ value helpers
None == << >>
Some(x) == <<x>>

Rat(n, d) == [num |-> n, den |-> d]
RAdd(a, b) == Rat(a.num * b.den + b.num * a.den, a.den * b.den)
RMul(a, b) == Rat(a.num * b.num, a.den * b.den)
RLess(a, b) == a.num * b.den < b.num * a.den
RMin(a, b) == IF RLess(b, a) THEN b ELSE a

\* round(x, 2) for x >= 0, as hundredths.  No input of the model is an exact
\* tie k/100 + 1/200 (that needs tx_count to be a multiple of 32), so the
\* nearest hundredth is unique and the float and the fraction round alike.
round2(x) == Rat((200 * x.num + x.den) \div (2 * x.den), 100)

\* ------------------------------------------------------------- JSON values
\* What response.json() can return: an array of dicts, an array holding
\* non-dict items, an object, or null.
JArray(items) == [json |-> "array", items |-> items]
JScalars(n) == [json |-> "array_of_scalars", len |-> n]
JObject(n) == [json |-> "object", len |-> n]
JNull == [json |-> "null"]

\* Python truthiness of a JSON value (`not tx_data`).
Truthy(v) ==
    CASE v.json = "array" -> Len(v.items) > 0
      [] v.json = "null" -> FALSE
      [] OTHER -> v.len > 0

Raised(exc) == [raised |-> exc]
IsRaised(v) == "raised" \in DOMAIN v

\* dict.get(key) on a dict that may lack the key.
Has(d, k) == k \in DOMAIN d

\* ------------------------------------------------------ feature extraction
\* Lines 100-103 with `if` in place of `elif`: a transfer from the address to
\* itself is counted on both sides.
count_transfer_both(acc, t, address) ==
    LET inc == IF Has(t, "toUserAccount") /\ t.toUserAccount = address
               THEN acc.incoming + 1 ELSE acc.incoming
        out == IF Has(t, "fromUserAccount") /\ t.fromUserAccount = address
               THEN acc.outgoing + 1 ELSE acc.outgoing
    IN  [acc EXCEPT !.incoming = inc, !.outgoing = out]

\* One pass of the inner loop body: the receiver test first, the sender test
\* only when the receiver test failed.
count_transfer(acc, t, address) ==
    IF Has(t, "toUserAccount") /\ t.toUserAccount = address
    THEN [acc EXCEPT !.incoming = acc.incoming + 1]
    ELSE IF Has(t, "fromUserAccount") /\ t.fromUserAccount = address
         THEN [acc EXCEPT !.outgoing = acc.outgoing + 1]
         ELSE acc

\* for t in tx.get("nativeTransfers", []), from index j on.
RECURSIVE transfer_loop(_, _, _, _)
transfer_loop(acc, transfers, j, address) ==
    IF j > Len(transfers) THEN acc
    ELSE transfer_loop(count_transfer(acc, transfers[j], address),
                       transfers, j + 1, address)

\* ts = tx.get("timestamp"); if ts and (last is None or ts > last): last = ts
track_timestamp(acc, tx) ==
    IF Has(tx, "timestamp") /\ tx.timestamp # 0
       /\ (acc.last_tx_timestamp = None \/ tx.timestamp > acc.last_tx_timestamp[1])
    THEN [acc EXCEPT !.last_tx_timestamp = Some(tx.timestamp)]
    ELSE acc

\* for tx in data, from index i on.
RECURSIVE record_loop(_, _, _, _)
record_loop(acc, items, i, address) ==
    IF i > Len(items) THEN acc
    ELSE LET tx == items[i]
             transfers == IF Has(tx, "nativeTransfers") THEN tx.nativeTransfers ELSE << >>
         IN  record_loop(track_timestamp(transfer_loop(acc, transfers, 1, address), tx),
                         items, i + 1, address)

\* The returned dict, from the loop's counters; t is time.time().
feature_set(tx_count, acc, t) ==
    [tx_count |-> tx_count,
     incoming_tx_count |-> acc.incoming,
     outgoing_tx_count |-> acc.outgoing,
     incoming_ratio |-> IF tx_count > 0 THEN Rat(acc.incoming, tx_count) ELSE Rat(0, 1),
     recent_activity_days |->
        IF acc.last_tx_timestamp # None
        THEN Some(Rat(t - acc.last_tx_timestamp[1], SECONDS_PER_DAY))
        ELSE None]

\* extract_features_from_helius(data, address) at time t.  len(None) raises;
\* iterating an object yields its keys and iterating an array of scalars its
\* scalars, and .get on either raises.
extract_features_from_helius(data, address, t) ==
    LET acc0 == [incoming |-> 0, outgoing |-> 0, last_tx_timestamp |-> None]
    IN  CASE data.json = "null" -> Raised("TypeError")
          [] data.json = "array" ->
                feature_set(Len(data.items),
                            record_loop(acc0, data.items, 1, address), t)
          [] OTHER ->
                IF data.len > 0 THEN Raised("AttributeError")
                ELSE feature_set(0, acc0, t)

\* ------------------------------------------------------------------ scoring
\* Line 146 without the clamp.
risk_score_unclamped(features) ==
    RAdd(Rat(1, 10), RMul(Rat(8, 10), features.incoming_ratio))

\* score = min(1.0, 0.1 + 0.8 * features["incoming_ratio"])
risk_score(features) ==
    RMin(Rat(1, 1), RAdd(Rat(1, 10), RMul(Rat(8, 10), features.incoming_ratio)))

\* label = "high" if score > 0.65 else "medium" if score > 0.35 else "low"
risk_label(score) ==
    IF RLess(Rat(65, 100), score) THEN "high"
    ELSE IF RLess(Rat(35, 100), score) THEN "medium"
    ELSE "low"

\* Line 139 as `if tx_data is None`: an empty list is let through.
fetch_failed_none_only(tx_data) == tx_data.json = "null"

\* if not tx_data
fetch_failed(tx_data) == ~Truthy(tx_data)

FETCH_ERROR == [error |-> "Failed to fetch transaction data from Helius."]
ADDRESS_ERROR == [error |-> "Missing 'address' field in request."]

\* The tail of score() with the label taken from the rounded score.
score_tail_label_of_rounded(tx_data, address, t) ==
    IF fetch_failed(tx_data) THEN FETCH_ERROR
    ELSE LET features == extract_features_from_helius(tx_data, address, t)
         IN  IF IsRaised(features) THEN features
             ELSE [score |-> round2(risk_score(features)),
                   label |-> risk_label(round2(risk_score(features))),
                   features |-> features]

\* score() from the return of get_transactions on: the empty check, the
\* features, the score, the label, the response.  An exception of the
\* extractor is not caught and leaves the handler.
score_tail(tx_data, address, t) ==
    IF fetch_failed(tx_data) THEN FETCH_ERROR
    ELSE LET features == extract_features_from_helius(tx_data, address, t)
         IN  IF IsRaised(features) THEN features
             ELSE [score |-> round2(risk_score(features)),
                   label |-> risk_label(risk_score(features)),
                   features |-> features]

IsResult(resp) == Has(resp, "score")
IsError(resp) == Has(resp, "error")

\* -------------------------------------------------------------------- state
VARIABLES
    CACHE,     \* the module-level dict: address -> [timestamp, data]
    now,       \* time.time(), in seconds
    ticks,     \* clock advances so far
    req,       \* the requests in flight, one per handler slot
    upSeq,     \* JSON responses the upstream has produced so far
    lastPut,   \* per address, what the latest write of CACHE[address] wrote
    call       \* a direct call of the extractor or of the scoring tail

serverVars == <<CACHE, now, ticks, req, upSeq, lastPut>>
vars == <<CACHE, now, ticks, req, upSeq, lastPut, call>>

\* --------------------------------------------------- inputs of the pure part
Parties == {"A", "X"}
Transfers == [fromUserAccount : Parties, toUserAccount : Parties]
SeqsUpTo(S, n) == UNION {[1..k -> S] : k \in 0..n}

\* Records with every transfer list up to MaxTransfers, and the shapes of the
\* optional keys: no nativeTransfers, a zero timestamp, two real timestamps.
Records ==
    {[nativeTransfers |-> s] : s \in SeqsUpTo(Transfers, MaxTransfers)}
    \cup {[timestamp |-> 0],
          [timestamp |-> SECONDS_PER_DAY],
          [nativeTransfers |-> << >>, timestamp |-> 2 * SECONDS_PER_DAY]}

\* n records with one transfer each, the first i of them to "A".
UniformList(i, n) ==
    [k \in 1..n |->
        IF k <= i
        THEN [nativeTransfers |-> <<[fromUserAccount |-> "X", toUserAccount |-> "A"]>>]
        ELSE [nativeTransfers |-> <<[fromUserAccount |-> "A", toUserAccount |-> "X"]>>]]

TransfersOf(tx) == IF Has(tx, "nativeTransfers") THEN tx.nativeTransfers ELSE << >>

\* The native-transfer entries of a record list, as (record, entry) positions.
Entries(items) ==
    UNION {{<<i, j>> : j \in 1..Len(TransfersOf(items[i]))} : i \in 1..Len(items)}

\* Every list of up to MaxRecords records holding up to MaxEntries transfers
\* in all, and the sweep of the ratios i / n.
PureInputs ==
    {JArray(l) : l \in {m \in SeqsUpTo(Records, MaxRecords) :
                            Cardinality(Entries(m)) <= MaxEntries}}
    \cup {JArray(UniformList(i, n)) : n \in 1..MaxUniform, i \in 0..MaxUniform}

PureNow == 3 * SECONDS_PER_DAY

\* --------------------------------------------------------------------- Init
Reqs == {1, 2}
Addrs == {"A", "B"}

IdleReq == [pc |-> "idle"]

ServerInit ==
    /\ CACHE = << >>
    /\ now = 0
    /\ ticks = 0
    /\ req = [r \in Reqs |-> IdleReq]
    /\ upSeq = 0
    /\ lastPut = [a \in Addrs |-> None]

Init ==
    /\ ServerInit
    /\ call = [stage |-> "off"]

PureInit ==
    /\ ServerInit
    /\ call \in {[stage |-> "input", data |-> d, address |-> a] :
                    d \in PureInputs, a \in Parties}

\* ------------------------------------------------------ pure specification
ApplyExtract ==
    /\ call.stage = "input"
    /\ call' = [stage |-> "extracted", data |-> call.data, address |-> call.address,
                features |-> extract_features_from_helius(call.data, call.address, PureNow)]
    /\ UNCHANGED serverVars

ApplyScore ==
    /\ call.stage = "input"
    /\ call' = [stage |-> "scored", data |-> call.data, address |-> call.address,
                response |-> score_tail(call.data, call.address, PureNow)]
    /\ UNCHANGED serverVars

PureNext == ApplyExtract \/ ApplyScore

PureSpec == PureInit /\ [][PureNext]_vars

\* ------------------------------------------------- claims of the pure part
Extracted == call.stage = "extracted" /\ ~IsRaised(call.features)
Scored == call.stage = "scored" /\ IsResult(call.response)

ReceivedBy(items, p, address) ==
    LET t == TransfersOf(items[p[1]])[p[2]]
    IN  Has(t, "toUserAccount") /\ t.toUserAccount = address

SentBy(items, p, address) ==
    LET t == TransfersOf(items[p[1]])[p[2]]
    IN  Has(t, "fromUserAccount") /\ t.fromUserAccount = address

\* C3: the incoming_ratio of every extracted FeatureSet lies in [0,1].
C3_RatioInUnitInterval ==
    Extracted =>
        /\ call.features.incoming_ratio.den > 0
        /\ 0 <= call.features.incoming_ratio.num
        /\ call.features.incoming_ratio.num <= call.features.incoming_ratio.den

\* The score of a response from its incoming_ratio, in integers: 0.1 + 0.8 r
\* is (den + 8 num) / (10 den), clamped to 1.
ExactScore(r) ==
    IF r.den + 8 * r.num > 10 * r.den THEN Rat(1, 1)
    ELSE Rat(r.den + 8 * r.num, 10 * r.den)

\* h hundredths is a nearest hundredth of x: |100 x - h| <= 1/2.
NearestHundredth(h, x) ==
    /\ 2 * (100 * x.num - h * x.den) <= x.den
    /\ 2 * (h * x.den - 100 * x.num) <= x.den

ScoreIsRounded(resp) ==
    /\ resp.score.den = 100
    /\ NearestHundredth(resp.score.num, ExactScore(resp.features.incoming_ratio))

\* C4 as stated: the response's score is the rounded formula and the label
\* follows the thresholds applied to the score in the response.
C4_LabelOfResponseScore ==
    Scored =>
        LET resp == call.response
            h == resp.score.num
        IN  /\ ScoreIsRounded(resp)
            /\ (resp.label = "high") <=> (h > 65)
            /\ (resp.label = "medium") <=> (35 < h /\ h <= 65)
            /\ (resp.label = "low") <=> (h <= 35)

\* C4 amended: the response's score is the rounded formula and the label
\* follows the thresholds applied to the score before rounding.
C4_LabelOfUnroundedScore ==
    Scored =>
        LET resp == call.response
            x == ExactScore(resp.features.incoming_ratio)
        IN  /\ ScoreIsRounded(resp)
            /\ (resp.label = "high") <=> (100 * x.num > 65 * x.den)
            /\ (resp.label = "medium") <=>
                    (100 * x.num > 35 * x.den /\ 100 * x.num <= 65 * x.den)
            /\ (resp.label = "low") <=> (100 * x.num <= 35 * x.den)

\* A response whose unrounded score 0.1 + 0.8 * 9/13 = 0.6538... is above the
\* 0.65 threshold and whose rounded score is 0.65.
C4_Witness ==
    /\ Scored
    /\ call.response.features.incoming_ratio = Rat(9, 13)
    /\ call.response.label = "high"
    /\ call.response.score = Rat(65, 100)

\* C5: every score in a response lies in [0,1].
C5_ScoreInUnitInterval ==
    Scored =>
        /\ call.response.score.den = 100
        /\ 0 <= call.response.score.num
        /\ call.response.score.num <= 100

\* A response built from an incoming_ratio above 1, where the clamp acts.
C5_Witness ==
    /\ Scored
    /\ call.response.features.incoming_ratio.num > call.response.features.incoming_ratio.den
    /\ call.response.score = Rat(100, 100)

ExampleRecords == UniformList(1, 2)

\* C10: incoming counts the entries received by the address, outgoing the
\* entries sent by it and not received by it, tx_count the records; the
\* two-record example gives 1, 1, 2 and a ratio of one half.
C10_CountsMatchEntries ==
    Extracted =>
        LET items == call.data.items
            f == call.features
            a == call.address
        IN  /\ f.tx_count = Len(items)
            /\ f.incoming_tx_count =
                 Cardinality({p \in Entries(items) : ReceivedBy(items, p, a)})
            /\ f.outgoing_tx_count =
                 Cardinality({p \in Entries(items) :
                                SentBy(items, p, a) /\ ~ReceivedBy(items, p, a)})
            /\ (items = ExampleRecords /\ a = "A") =>
                    /\ f.incoming_tx_count = 1
                    /\ f.outgoing_tx_count = 1
                    /\ f.tx_count = 2
                    /\ 2 * f.incoming_ratio.num = f.incoming_ratio.den

\* A record list holding a transfer from the address to itself, counted as
\* incoming only, beside one outgoing transfer.
C10_Witness ==
    /\ Extracted
    /\ call.address = "A"
    /\ call.data.items =
         <<[nativeTransfers |-> <<[fromUserAccount |-> "A", toUserAccount |-> "A"],
                                  [fromUserAccount |-> "A", toUserAccount |-> "X"]>>]>>
    /\ call.features.incoming_tx_count = 1
    /\ call.features.outgoing_tx_count = 1

\* ------------------------------------------------------------------- server
\* What the upstream GET can end in: a transport error, a non-2xx status, a
\* body that is not JSON, or a JSON value.
UpstreamFailures == {[failure |-> k] : k \in {"transport", "status", "parse"}}

ServerPayloads ==
    {JArray(<< >>),
     JArray(ExampleRecords),
     JObject(1)}

UpstreamOutcomes == UpstreamFailures \cup ServerPayloads

ScoreBodies == {[address |-> a] : a \in Addrs \cup {""}} \cup {[tx |-> "AQID"]}
\* The /simulate requests: a body and what simulate_transaction does when the
\* handler gets as far as calling it.
RpcOutcomes == {"raises", "no_value", "value"}
SimulateCases ==
    {<<[tx |-> "AQID"], rpc>> : rpc \in RpcOutcomes}
    \cup {<<body, "not_called">> :
            body \in {[tx |-> "not-base64!!"], [tx |-> ""], [address |-> "A"]}}
TickSizes == {CACHE_TTL - 1, CACHE_TTL}

\* A slot takes a new request when it holds none or a finished one.
Free(r) == req[r].pc \in {"idle", "done"}

\* Line 67 with `<=` in place of `<`.
cache_valid_inclusive(cache, address, t) ==
    /\ address \in DOMAIN cache
    /\ t - cache[address].timestamp <= CACHE_TTL

\* address in CACHE and time.time() - CACHE[address]["timestamp"] < CACHE_TTL
cache_valid(cache, address, t) ==
    /\ address \in DOMAIN cache
    /\ t - cache[address].timestamp < CACHE_TTL

\* Line 84 as `CACHE = {address: ...}`: the dict is replaced, not updated.
cache_put_replacing_dict(cache, address, t, data) ==
    [k \in {address} |-> [timestamp |-> t, data |-> data]]

\* Line 84 left out: the fetched data is returned and not stored.
cache_put_skipped(cache, address, t, data) == cache

\* Line 84 updating the payload of an entry in place, its timestamp kept.
cache_put_data_only(cache, address, t, data) ==
    [k \in DOMAIN cache \cup {address} |->
        IF k = address
        THEN IF address \in DOMAIN cache
             THEN [timestamp |-> cache[address].timestamp, data |-> data]
             ELSE [timestamp |-> t, data |-> data]
        ELSE cache[k]]

\* CACHE[address] = {"timestamp": time.time(), "data": data}
cache_put(cache, address, t, data) ==
    [k \in DOMAIN cache \cup {address} |->
        IF k = address THEN [timestamp |-> t, data |-> data] ELSE cache[k]]

\* GET /health: the response.
health_response == [ok |-> TRUE]

\* GET /health.  The handler reads and writes no state of the process.
Health ==
    /\ health_response.ok
    /\ UNCHANGED vars

\* base64.b64decode on the request strings of the model: "AQID" decodes to
\* three bytes, "not-base64!!" keeps nine alphabet characters and raises.
b64decode_raises(tx) == tx = "not-base64!!"

\* POST /simulate: the response; rpc is what simulate_transaction did.
simulate_response(body, rpc) ==
    IF ~Has(body, "tx") \/ body.tx = ""
    THEN [error |-> "Missing 'tx' field"]
    ELSE IF b64decode_raises(body.tx) THEN [error |-> "Incorrect padding"]
    ELSE CASE rpc = "raises" -> [error |-> "rpc"]
           [] rpc = "no_value" ->
                [logs |-> << >>, units_consumed |-> None, err |-> None]
           [] OTHER ->
                [logs |-> <<"log">>, units_consumed |-> Some(1), err |-> None]

\* POST /simulate.  Every exception is caught, and the handler reads and
\* writes no state of the process.
Simulate(body, rpc) ==
    /\ IsError(simulate_response(body, rpc)) \/ Has(simulate_response(body, rpc), "logs")
    /\ UNCHANGED vars

MissingAddress(body) == ~Has(body, "address") \/ body.address = ""

\* POST /score up to its first await: the address check, then the cache
\* lookup of get_transactions.  A hit runs the rest of the handler in the same
\* step, a miss issues the upstream GET and suspends.
ScoreBegin(r, body) ==
    /\ Free(r)
    /\ req' = [req EXCEPT ![r] =
         IF MissingAddress(body)
         THEN [pc |-> "done", endpoint |-> "score", response |-> ADDRESS_ERROR]
         ELSE IF cache_valid(CACHE, body.address, now)
         THEN [pc |-> "done", endpoint |-> "score", address |-> body.address,
               source |-> "cache",
               hit_age |-> now - CACHE[body.address].timestamp,
               tx_data |-> CACHE[body.address].data,
               response |-> score_tail(CACHE[body.address].data, body.address, now)]
         ELSE [pc |-> "awaiting_get", endpoint |-> "score", address |-> body.address,
               at |-> now]]
    /\ UNCHANGED <<CACHE, now, ticks, upSeq, lastPut, call>>

\* The upstream answers the GET.  A failure is logged and [] returned, which
\* the handler turns into the fetch error.  A JSON value has yet to travel
\* back and the `async with` block has yet to close its HTTP client, awaits
\* during which other requests run, before line 84 writes the cache.
UpstreamRespond(r, outcome) ==
    /\ req[r].pc = "awaiting_get"
    /\ IF Has(outcome, "failure")
       THEN /\ req' = [req EXCEPT ![r] =
                         [pc |-> "done", endpoint |-> "score", address |-> req[r].address,
                          at |-> req[r].at, source |-> "failure",
                          tx_data |-> JArray(<< >>),
                          response |-> score_tail(JArray(<< >>), req[r].address, now)]]
            /\ UNCHANGED upSeq
       ELSE /\ upSeq < MaxResponses
            /\ req' = [req EXCEPT ![r] =
                         [pc |-> "closing_client", endpoint |-> "score",
                          address |-> req[r].address, at |-> req[r].at,
                          data |-> outcome, seq |-> upSeq + 1]]
            /\ upSeq' = upSeq + 1
    /\ UNCHANGED <<CACHE, now, ticks, lastPut, call>>

\* The response has arrived and the client is closed: the data is written to
\* the cache and returned, and the rest of the handler runs.
CacheStore(r) ==
    /\ req[r].pc = "closing_client"
    /\ CACHE' = cache_put(CACHE, req[r].address, now, req[r].data)
    /\ lastPut' = [lastPut EXCEPT ![req[r].address] =
                     Some([timestamp |-> now, data |-> req[r].data, seq |-> req[r].seq])]
    /\ req' = [req EXCEPT ![r] =
                 [pc |-> "done", endpoint |-> "score", address |-> req[r].address,
                  at |-> req[r].at, source |-> "upstream",
                  tx_data |-> req[r].data,
                  response |-> score_tail(req[r].data, req[r].address, now)]]
    /\ UNCHANGED <<now, ticks, upSeq, call>>

\* The clock advances.
Tick(d) ==
    /\ ticks < MaxTicks
    /\ now' = now + d
    /\ ticks' = ticks + 1
    /\ UNCHANGED <<CACHE, req, upSeq, lastPut, call>>

Next ==
    \/ Health
    \/ \E c \in SimulateCases : Simulate(c[1], c[2])
    \/ \E r \in Reqs, body \in ScoreBodies : ScoreBegin(r, body)
    \/ \E r \in Reqs, outcome \in UpstreamOutcomes : UpstreamRespond(r, outcome)
    \/ \E r \in Reqs : CacheStore(r)
    \/ \E d \in TickSizes : Tick(d)

Spec == Init /\ [][Next]_vars

\* ---------------------------------------------------- claims of the server
\* Slot r holds a /score request that called get_transactions.
Called(r) == Has(req[r], "address")

\* The request in slot r issued an upstream GET.
IssuedGet(r) ==
    /\ Called(r)
    /\ \/ req[r].pc \in {"awaiting_get", "closing_client"}
       \/ req[r].pc = "done" /\ req[r].source \in {"failure", "upstream"}

\* In this step slot r takes a /score request that calls get_transactions.
NewCall(r) == Free(r) /\ req'[r] # req[r] /\ Has(req'[r], "address")

Stored(a) == lastPut[a] # None

\* C1 as stated: two get_transactions calls for one address made less than
\* CACHE_TTL apart never both issue an upstream GET.
C1_AtMostOneGetWithinTtl ==
    \A r1, r2 \in Reqs :
        (/\ r1 # r2
         /\ IssuedGet(r1) /\ IssuedGet(r2)
         /\ req[r1].address = req[r2].address)
        => \/ req[r1].at - req[r2].at >= CACHE_TTL
           \/ req[r2].at - req[r1].at >= CACHE_TTL

\* C1 amended: once a fetch for an address has been written to the cache, a
\* call for it made less than CACHE_TTL after that write issues no GET and
\* returns the payload of the latest write.
C1_HitAfterStoredFetch ==
    [][\A r \in Reqs :
        (NewCall(r) /\ Stored(req'[r].address)
            /\ now - lastPut[req'[r].address][1].timestamp < CACHE_TTL)
        => /\ req'[r].pc = "done"
           /\ req'[r].source = "cache"
           /\ req'[r].tx_data = lastPut[req'[r].address][1].data]_vars

\* A call served from the cache CACHE_TTL - 1 seconds after the fetch was
\* written.
C1_Witness ==
    \E r \in Reqs :
        /\ req[r].pc = "done" /\ Called(r)
        /\ req[r].source = "cache"
        /\ req[r].hit_age = CACHE_TTL - 1

\* C2: a call made when the cache holds no entry for the address younger than
\* CACHE_TTL issues an upstream GET, and what such a call returns is the
\* fetched value or [], never the stale entry.
C2_MissAlwaysFetches ==
    [][\A r \in Reqs :
        /\ (NewCall(r)
              /\ (req'[r].address \notin DOMAIN CACHE
                    \/ now - CACHE[req'[r].address].timestamp >= CACHE_TTL))
           => req'[r].pc = "awaiting_get"
        /\ (req[r].pc = "awaiting_get" /\ req'[r].pc = "done")
           => req'[r].tx_data = JArray(<< >>)
        /\ (req[r].pc = "closing_client" /\ req'[r].pc = "done")
           => req'[r].tx_data = req[r].data]_vars

\* A GET in flight for an address whose entry was aged exactly CACHE_TTL when
\* the call was made.
C2_Witness ==
    \E r \in Reqs :
        /\ req[r].pc = "awaiting_get"
        /\ req[r].address \in DOMAIN CACHE
        /\ req[r].at - CACHE[req[r].address].timestamp = CACHE_TTL

EmptyResult(v) == v.json = "array" /\ v.items = << >>

\* C6: when get_transactions yields an empty result, /score answers with one
\* flat error object and no score.
C6_EmptyFetchIsError ==
    \A r \in Reqs :
        (req[r].pc = "done" /\ Called(r) /\ EmptyResult(req[r].tx_data))
        => DOMAIN req[r].response = {"error"}

\* A request answered from a cached empty payload.
C6_Witness ==
    \E r \in Reqs :
        /\ req[r].pc = "done" /\ Called(r)
        /\ req[r].source = "cache"
        /\ EmptyResult(req[r].tx_data)
        /\ req[r].response = FETCH_ERROR

\* C7: get_transactions returns the record array or an empty sequence, and
\* /score ends with a full result or one flat error object.
C7_NoUnhandledFault ==
    \A r \in Reqs :
        (req[r].pc = "done" /\ req[r].endpoint = "score")
        => /\ \/ DOMAIN req[r].response = {"score", "label", "features"}
              \/ DOMAIN req[r].response = {"error"}
           /\ Called(r) => req[r].tx_data.json = "array"

\* C8 as stated: a write of CACHE[address] never replaces an entry with a
\* payload the upstream produced before the one it replaces.
C8_PutNeverOlder ==
    [][\A a \in Addrs :
        (Stored(a) /\ lastPut'[a] # lastPut[a])
        => lastPut'[a][1].seq > lastPut[a][1].seq]_vars

\* C8 amended: the entry of an address is what the latest write of it wrote,
\* timestamp and payload together, and a cache hit returns that entry.
C8_LastWriterWins ==
    /\ [](\A a \in Addrs :
            /\ (a \in DOMAIN CACHE) <=> Stored(a)
            /\ Stored(a) =>
                 CACHE[a] = [timestamp |-> lastPut[a][1].timestamp,
                             data |-> lastPut[a][1].data])
    /\ [][\A r \in Reqs :
            (NewCall(r) /\ req'[r].pc = "done")
            => /\ Stored(req'[r].address)
               /\ req'[r].tx_data = lastPut[req'[r].address][1].data
               /\ now - req'[r].hit_age = lastPut[req'[r].address][1].timestamp]_vars

\* Both slots fetched one address, and the entry left in the cache is the
\* first of the two upstream responses: the later response was written first.
C8_Witness ==
    \E a \in Addrs :
        /\ upSeq = 2
        /\ Stored(a) /\ lastPut[a][1].seq = 1
        /\ \A r \in Reqs :
              /\ req[r].pc = "done" /\ Called(r)
              /\ req[r].source = "upstream" /\ req[r].address = a

\* C9: the cache changes only in the step that writes the requested address's
\* entry after a successful fetch; no other key changes and none is removed.
C9_OnlyStoreWritesCache ==
    [][/\ DOMAIN CACHE \subseteq DOMAIN CACHE'
       /\ CACHE' # CACHE =>
            \E r \in Reqs :
                /\ req[r].pc = "closing_client"
                /\ req'[r].pc = "done" /\ req'[r].source = "upstream"
                /\ DOMAIN CACHE' = DOMAIN CACHE \cup {req[r].address}
                /\ \A k \in DOMAIN CACHE \ {req[r].address} : CACHE'[k] = CACHE[k]]_vars

\* A request whose fetch failed on a stale entry, the entry still in place
\* beside the entry of the other address.
C9_Witness ==
    \E r \in Reqs :
        /\ req[r].pc = "done" /\ Called(r)
        /\ req[r].source = "failure"
        /\ DOMAIN CACHE = Addrs
        /\ now - CACHE[req[r].address].timestamp >= CACHE_TTL

====
